---- MODULE Spec2Model ----
(***************************************************************************)
(* Model of app/causal_discovery.py: class CausalDiscovery.                *)
(*                                                                         *)
(*   skeleton_result         the skeleton builder: one conditional-        *)
(*                           independence test per candidate edge and per  *)
(*                           subset of the other variables                 *)
(*   causal_direct_collider  the edge orienter: the collider rule per node *)
(*                           pair, then the conflict-resolution pass       *)
(*                                                                         *)
(* p-values are counted in hundredths: 5 stands for 0.05.  The test        *)
(* primitive pg.partial_corr is an oracle, a pure function of the two      *)
(* variables (partial correlation is symmetric in them) and the set of     *)
(* covariates.  A data frame is a sequence of rows; row labels are the     *)
(* 1-based positions.                                                      *)
(***************************************************************************)
EXTENDS Integers, Sequences, FiniteSets, TLC

\* ------------------------------------------------------------------ bounds
MaxCand == 2        \* longest candidate-edge list (self.skeleton)
MaxPairs == 2       \* longest node-pair list (nodes)

\* the significance threshold 0.05, in hundredths
Alpha == 5
\* the p-values the oracle answers with: below, at and above the threshold
PVals == {1, 5, 9}
\* the p-values of the tables handed to the orienter, which reads a p-value
\* through "> 0.05" only
OrientPVals == {5, 9}
\* the variable lists of the data sets
VarLists == {<<"A", "B">>, <<"A", "B", "C">>}
\* a wider data set, tested one candidate edge at a time: its edges have four
\* conditioning sets each, of sizes 0, 1, 1 and 2
WideVars == <<"A", "B", "C", "D">>
\* the pairs of the wider data set that are tested before, and given to, the
\* orienter: two pairs that share a variable
WidePairs == <<(<<"A", "B">>), (<<"A", "D">>)>>
\* a name that is no column of any data set
Unknown == "Z"

VARIABLES
    vars_lst,            \* self.vars_lst
    skeleton,            \* self.skeleton: the candidate edges
    oracle,              \* self.data, as the p-values it has yielded so far
    k,                   \* position of the outer loop of skeleton_result
    result,              \* local list of surviving edges
    skeleton_table,      \* the table of test records
    ind_corr,            \* labels with a test of p-val < 0.05
    pc,                  \* where the program is
    nodes,               \* argument of causal_direct_collider
    collider,            \* argument of causal_direct_collider
    n,                   \* position of the loop over nodes
    causal_table,        \* accumulated emitted edges
    final_causal_table   \* deduplicated / resolved edges

vars == <<vars_lst, skeleton, oracle, k, result, skeleton_table, ind_corr, pc,
          nodes, collider, n, causal_table, final_causal_table>>

skelVars == <<vars_lst, skeleton, oracle, k, result, skeleton_table, ind_corr>>
orientVars == <<nodes, collider, n, causal_table, final_causal_table>>

\* ----------------------------------------------------------------- helpers
Range(s) == {s[i] : i \in 1..Len(s)}

SeqsUpTo(S, m) == UNION {[1..j -> S] : j \in 0..m}

RECURSIVE Pow2(_)
Pow2(e) == IF e <= 0 THEN 1 ELSE 2 * Pow2(e - 1)

\* [<<h>> \o c for c in cs]
RECURSIVE PrependAll(_, _)
PrependAll(h, cs) ==
    IF cs = <<>> THEN <<>>
    ELSE <<(<<h>> \o Head(cs))>> \o PrependAll(h, Tail(cs))

\* itertools.combinations(s, r), in its lexicographic order of positions
RECURSIVE Combinations(_, _)
Combinations(s, r) ==
    IF r = 0 THEN << <<>> >>
    ELSE IF Len(s) < r THEN <<>>
    ELSE PrependAll(Head(s), Combinations(Tail(s), r - 1))
         \o Combinations(Tail(s), r)

\* chain.from_iterable(combinations(other, r) for r in range(from, stop))
RECURSIVE ChainCombinations(_, _, _)
ChainCombinations(other, r, stop) ==
    IF r >= stop THEN <<>>
    ELSE Combinations(other, r) \o ChainCombinations(other, r + 1, stop)

\* [var for var in vars_lst if var != x and var != y]
OtherVars(vl, x, y) == SelectSeq(vl, LAMBDA v : v # x /\ v # y)

\* range(len(other_vars)): a faulty variant that loses the largest conditioning set
AllCombinationsShort(other) == ChainCombinations(other, 0, Len(other))

\* list(chain.from_iterable(combinations(other_vars, r)
\*                          for r in range(len(other_vars) + 1)))
AllCombinations(other) == ChainCombinations(other, 0, Len(other) + 1)

\* f'{x} - {y}'
EdgeLabel(x, y) == <<x, " - ", y>>

\* ' - '.join(i)
JoinLabel(e) == <<e[1], " - ", e[2]>>

\* what the oracle is asked: the two variables and the covariates
Key(x, y, comb) == <<{x, y}, Range(comb)>>

EdgeKeys(vl, x, y) ==
    {Key(x, y, c) : c \in Range(AllCombinations(OtherVars(vl, x, y)))}

\* a faulty variant of list.remove that also removes the pair written the other
\* way round
RECURSIVE RemoveEitherOrder(_, _)
RemoveEitherOrder(lst, e) ==
    IF lst = <<>> THEN <<>>
    ELSE IF Head(lst) = e \/ Head(lst) = <<e[2], e[1]>> THEN Tail(lst)
    ELSE <<Head(lst)>> \o RemoveEitherOrder(Tail(lst), e)

\* try: result.remove((x, y)) except ValueError: pass
\* the first occurrence goes; a list without it is left as it is
RECURSIVE Remove(_, _)
Remove(lst, e) ==
    IF lst = <<>> THEN <<>>
    ELSE IF Head(lst) = e THEN Tail(lst)
    ELSE <<Head(lst)>> \o Remove(Tail(lst), e)

\* ------------------------------------------------------- skeleton_result
\* the inner loop over the conditioning sets of one candidate edge
RECURSIVE TestLoop(_, _, _, _, _, _)
TestLoop(tbl, res, x, y, combs, o) ==
    IF combs = <<>> THEN [table |-> tbl, result |-> res]
    ELSE LET comb == Head(combs)
             p_val == o[Key(x, y, comb)]
             row == [node_1 |-> x, node_2 |-> y, edges |-> EdgeLabel(x, y),
                     s |-> comb, pval |-> p_val, removed |-> "NaN"]
         IN  TestLoop(Append(tbl, row),
                      IF p_val > Alpha THEN Remove(res, <<x, y>>) ELSE res,
                      x, y, Tail(combs), o)

\* the body of the outer loop for the candidate edge (x, y)
TestEdgeBody(tbl, res, vl, x, y, o) ==
    TestLoop(tbl, res, x, y, AllCombinations(OtherVars(vl, x, y)), o)

\* skeleton_table['removed'] = True, then False for the labels of result
MarkRemoved(tbl, res) ==
    [i \in 1..Len(tbl) |->
        [tbl[i] EXCEPT !.removed =
            IF \E j \in 1..Len(res) : tbl[i].edges = JoinLabel(res[j])
            THEN "False" ELSE "True"]]

\* skeleton_table[skeleton_table['p-val'] < 0.05]
\*     .drop_duplicates('edges')['edges'].values
RECURSIVE FirstLabels(_, _)
FirstLabels(rows, acc) ==
    IF rows = <<>> THEN acc
    ELSE FirstLabels(Tail(rows),
                     IF Head(rows).edges \in Range(acc) THEN acc
                     ELSE Append(acc, Head(rows).edges))

IndCorr(tbl) == FirstLabels(SelectSeq(tbl, LAMBDA r : r.pval < Alpha), <<>>)

\* the names a candidate edge may use: the variables and one unknown name
Names(vl) == Range(vl) \cup {Unknown}

CandEdges(vl) == {e \in Names(vl) \X Names(vl) : e[1] # e[2]}

\* the candidate lists tried on a data set
CandLists(vl) ==
    IF vl = WideVars THEN SeqsUpTo(CandEdges(vl), 1)
    ELSE SeqsUpTo(CandEdges(vl), MaxCand)

Init ==
    /\ vars_lst \in VarLists \cup {WideVars}
    /\ skeleton \in CandLists(vars_lst)
    /\ oracle = <<>>
    /\ k = 0
    /\ result = <<>>
    /\ skeleton_table = <<>>
    /\ ind_corr = <<>>
    /\ pc = "constructed"
    /\ nodes = <<>>
    /\ collider = "none"
    /\ n = 0
    /\ causal_table = <<>>
    /\ final_causal_table = <<>>

\* lines 34-43: result = list(combinations(vars_lst, 2)), the empty table
StartSkeleton ==
    /\ pc = "constructed"
    /\ result' = Combinations(vars_lst, 2)
    /\ skeleton_table' = <<>>
    /\ k' = 1
    /\ pc' = "testing"
    /\ UNCHANGED <<vars_lst, skeleton, oracle, ind_corr>>
    /\ UNCHANGED orientVars

\* lines 45-70 for one candidate edge whose columns the data set has
TestEdge ==
    /\ pc = "testing"
    /\ k <= Len(skeleton)
    /\ LET x == skeleton[k][1]
           y == skeleton[k][2]
           keys == EdgeKeys(vars_lst, x, y)
       IN  /\ x \in Range(vars_lst)
           /\ y \in Range(vars_lst)
           /\ \E o \in [keys -> PVals] :
                /\ \A q \in keys \cap DOMAIN oracle : o[q] = oracle[q]
                /\ LET out == TestEdgeBody(skeleton_table, result,
                                           vars_lst, x, y, o)
                   IN  /\ skeleton_table' = out.table
                       /\ result' = out.result
                /\ oracle' = [q \in keys \cup DOMAIN oracle |->
                                 IF q \in keys THEN o[q] ELSE oracle[q]]
    /\ k' = k + 1
    /\ UNCHANGED <<vars_lst, skeleton, ind_corr, pc>>
    /\ UNCHANGED orientVars

\* line 55 for a candidate edge naming a column the data set does not have:
\* pg.partial_corr raises at the edge's first test
OracleRaises ==
    /\ pc = "testing"
    /\ k <= Len(skeleton)
    /\ \/ skeleton[k][1] \notin Range(vars_lst)
       \/ skeleton[k][2] \notin Range(vars_lst)
    /\ pc' = "raised"
    /\ UNCHANGED skelVars
    /\ UNCHANGED orientVars

\* lines 72-87: the removed column, ind_corr, self.skeleton_table, return
FinishSkeleton ==
    /\ pc = "testing"
    /\ k > Len(skeleton)
    /\ skeleton_table' = MarkRemoved(skeleton_table, result)
    /\ ind_corr' = IndCorr(skeleton_table)
    /\ pc' = "returned"
    /\ UNCHANGED <<vars_lst, skeleton, oracle, k, result>>
    /\ UNCHANGED orientVars

Next ==
    \/ StartSkeleton
    \/ TestEdge
    \/ OracleRaises
    \/ FinishSkeleton

Spec == Init /\ [][Next]_vars

\* ------------------------------------------------- claims: skeleton_result
Rows == 1..Len(skeleton_table)

\* the pairs of the rows marked removed = False
UnremovedPairs ==
    {<<skeleton_table[i].node_1, skeleton_table[i].node_2>> :
        i \in {j \in Rows : skeleton_table[j].removed = "False"}}

\* the variable pairs with no row of their own, node_1 and node_2 in the
\* order of vars_lst
PairsWithoutRow ==
    {e \in Range(Combinations(vars_lst, 2)) :
        \A i \in Rows : <<skeleton_table[i].node_1, skeleton_table[i].node_2>> # e}

\* C1: when skeleton_result has returned, a row is marked removed = True if
\* and only if some test record of the same edge has a p-value above 0.05.
C1_RemovedIffSomeTestAboveAlpha ==
    pc = "returned" =>
        \A i \in Rows :
            (skeleton_table[i].removed = "True")
            <=> (\E j \in Rows : /\ skeleton_table[j].edges = skeleton_table[i].edges
                                 /\ skeleton_table[j].pval > Alpha)

\* C2, as stated: when skeleton_result has returned, the surviving edges, as
\* a set of unordered pairs, are the edges of the rows marked removed = False.
C2_SurvivorsEqualUnremovedRows ==
    pc = "returned" =>
        {{result[i][1], result[i][2]} : i \in 1..Len(result)}
        = {{e[1], e[2]} : e \in UnremovedPairs}

\* C2, amended: when skeleton_result has returned, the surviving edges are
\* the (node_1, node_2) pairs of the rows marked removed = False together with
\* every pair of combinations(vars_lst, 2) that has no row in that orientation.
C2_SurvivorsAreUnremovedOrUntested ==
    pc = "returned" => Range(result) = UnremovedPairs \cup PairsWithoutRow

\* a run that tested one edge and removed it, tested another and kept it, and
\* left a third pair untested
C2_Witness ==
    /\ pc = "returned"
    /\ \E i \in Rows : skeleton_table[i].removed = "True"
    /\ UnremovedPairs # {}
    /\ PairsWithoutRow # {}
    /\ Len(result) = 2

\* the number of candidate edges the outer loop has been through
Tested == IF k = 0 THEN 0 ELSE k - 1

BlockSize == Pow2(Len(vars_lst) - 2)

\* the rows of the j-th candidate edge
Block(j) == [m \in 1..BlockSize |-> skeleton_table[(j - 1) * BlockSize + m]]

\* C3: every candidate edge gone through has 2^(|variables| - 2) test records,
\* one per subset of the other variables, in non-decreasing size of the
\* subset, whether or not an earlier test of the edge already had p > 0.05.
C3_FullPowerSetPerEdge ==
    /\ Len(skeleton_table) = Tested * BlockSize
    /\ \A j \in 1..Tested :
         LET x == skeleton[j][1]
             y == skeleton[j][2]
             blk == Block(j)
         IN  /\ \A m \in 1..BlockSize :
                   /\ blk[m].node_1 = x
                   /\ blk[m].node_2 = y
                   /\ Cardinality(Range(blk[m].s)) = Len(blk[m].s)
             /\ {Range(blk[m].s) : m \in 1..BlockSize}
                = SUBSET (Range(vars_lst) \ {x, y})
             /\ \A m1, m2 \in 1..BlockSize :
                   m1 # m2 => Range(blk[m1].s) # Range(blk[m2].s)
             /\ \A m \in 1..(BlockSize - 1) : Len(blk[m].s) <= Len(blk[m + 1].s)
             /\ blk[1].s = <<>>

\* four variables: the edge is removed by its first test and the three other
\* conditioning sets are tested and recorded all the same
C3_Witness ==
    /\ pc = "returned"
    /\ vars_lst = WideVars
    /\ Len(skeleton_table) = 4
    /\ skeleton_table[1].pval > Alpha
    /\ Len(skeleton_table[4].s) = 2
    /\ result # Combinations(vars_lst, 2)

\* C8: when a candidate edge names a variable that is not in vars_lst,
\* skeleton_result fails before any test is run or recorded and before any
\* edge is removed.
C8_InvalidReferenceFailsBeforeTesting ==
    pc = "raised" =>
        /\ skeleton_table = <<>>
        /\ DOMAIN oracle = {}
        /\ result = Combinations(vars_lst, 2)

\* ------------------------------------------------ causal_direct_collider
\* a whole run of skeleton_result on candidate edges the data set has
RECURSIVE SkeletonLoop(_, _, _, _, _)
SkeletonLoop(tbl, res, vl, cands, o) ==
    IF cands = <<>> THEN [table |-> tbl, result |-> res]
    ELSE LET out == TestEdgeBody(tbl, res, vl, Head(cands)[1],
                                 Head(cands)[2], o)
         IN  SkeletonLoop(out.table, out.result, vl, Tail(cands), o)

TestedKeys(vl, cands) ==
    UNION {EdgeKeys(vl, cands[i][1], cands[i][2]) : i \in 1..Len(cands)}

\* the sub-lists of s, in the order of s
RECURSIVE SubLists(_)
SubLists(s) ==
    IF s = <<>> THEN {<<>>}
    ELSE LET rest == SubLists(Tail(s))
         IN  rest \cup {<<Head(s)>> \o r : r \in rest}

\* the candidate lists whose tables the orienter is run on: any selection of
\* the variable pairs
OrientSkeletons(vl) ==
    IF vl = WideVars THEN SubLists(WidePairs)
    ELSE SubLists(Combinations(vl, 2))

\* the state skeleton_result leaves behind, under any oracle
InitOrient ==
    /\ vars_lst \in VarLists \cup {WideVars}
    /\ skeleton \in OrientSkeletons(vars_lst)
    /\ oracle \in [TestedKeys(vars_lst, skeleton) -> OrientPVals]
    /\ k = Len(skeleton) + 1
    /\ LET out == SkeletonLoop(<<>>, Combinations(vars_lst, 2), vars_lst,
                               skeleton, oracle)
       IN  /\ result = out.result
           /\ skeleton_table = MarkRemoved(out.table, out.result)
           /\ ind_corr = IndCorr(out.table)
    /\ pc = "returned"
    /\ nodes = <<>>
    /\ collider = "none"
    /\ n = 0
    /\ causal_table = <<>>
    /\ final_causal_table = <<>>

\* the node pairs a call may be given
NodePairs(vl) ==
    IF vl = WideVars THEN Range(WidePairs)
    ELSE {e \in Range(vl) \X Range(vl) : e[1] # e[2]}

\* one row of the causal tables; dir is NaN until the last step
Edge(f, t) == [from |-> f, dir |-> "NaN", to |-> t]

\* a faulty variant that matches node_1 and node_2 in the given order only
FilterPairInOrder(tbl, node) ==
    SelectSeq(tbl, LAMBDA r : r.node_1 = node[1] /\ r.node_2 = node[2])

\* skeleton_table[node_1.isin([node[0], node[1]])
\*                & node_2.isin([node[1], node[0]])]
FilterPair(tbl, node) ==
    SelectSeq(tbl, LAMBDA r : /\ r.node_1 \in {node[1], node[2]}
                              /\ r.node_2 \in {node[1], node[2]})

\* a faulty variant with >= 0.05
ColliderConditionGe(rows, c) ==
    Len(SelectSeq(rows, LAMBDA r : r.pval >= Alpha /\ c \notin Range(r.s))) > 0

\* len(result[(result['p-val'] > 0.05)
\*            & result['s'].apply(lambda x: collider not in x)]) > 0
ColliderCondition(rows, c) ==
    Len(SelectSeq(rows, LAMBDA r : r.pval > Alpha /\ c \notin Range(r.s))) > 0

\* lines 123-126: both nodes point into the collider
InwardRecords(node, c) == <<Edge(node[1], c), Edge(node[2], c)>>

\* a faulty variant whose concat comes before the second record is gathered
OutwardRecordsFirstOnly(node, c) == <<Edge(c, node[1])>>

\* lines 131-135: the concat is inside the loop over the two nodes, so the
\* records gathered so far are appended once per node
OutwardRecords(node, c) ==
    <<Edge(c, node[1])>> \o <<Edge(c, node[1]), Edge(c, node[2])>>

\* lines 112-135: what one node pair appends to causal_table
Emitted(tbl, node, c) ==
    IF ColliderCondition(FilterPair(tbl, node), c)
    THEN InwardRecords(node, c)
    ELSE OutwardRecords(node, c)

\* drop_duplicates(ignore_index=True): the first of equal rows stays
RECURSIVE FirstOccurrences(_, _)
FirstOccurrences(t, acc) ==
    IF t = <<>> THEN acc
    ELSE FirstOccurrences(Tail(t),
                          IF Head(t) \in Range(acc) THEN acc
                          ELSE Append(acc, Head(t)))

DropDuplicates(t) == FirstOccurrences(t, <<>>)

\* faulty variants of the conflict pass: one that drops nothing, one that does
\* not ask for from == collider, one that looks the target up in the 'to'
\* column
ResolveLoopNoDrop(tbl, live, i, c) == live

RECURSIVE ResolveLoopAnyFrom(_, _, _, _)
ResolveLoopAnyFrom(tbl, live, i, c) ==
    IF i > Len(tbl) THEN live
    ELSE IF tbl[i].to \in {tbl[j].from : j \in live}
         THEN ResolveLoopAnyFrom(tbl, live \ {i}, i + 1, c)
         ELSE ResolveLoopAnyFrom(tbl, live, i + 1, c)

RECURSIVE ResolveLoopToColumn(_, _, _, _)
ResolveLoopToColumn(tbl, live, i, c) ==
    IF i > Len(tbl) THEN live
    ELSE IF /\ tbl[i].from = c
            /\ tbl[i].to \in {tbl[j].to : j \in live}
         THEN ResolveLoopToColumn(tbl, live \ {i}, i + 1, c)
         ELSE ResolveLoopToColumn(tbl, live, i + 1, c)

\* lines 145-148: for i in range(len(table)): a row collider -> t is dropped
\* in place when t is among the 'from' values of the rows still there;
\* live is the set of labels still there
RECURSIVE ResolveLoop(_, _, _, _)
ResolveLoop(tbl, live, i, c) ==
    IF i > Len(tbl) THEN live
    ELSE IF /\ tbl[i].from = c
            /\ tbl[i].to \in {tbl[j].from : j \in live}
         THEN ResolveLoop(tbl, live \ {i}, i + 1, c)
         ELSE ResolveLoop(tbl, live, i + 1, c)

\* final_causal_table['dir'] = '->' and reset_index(drop=True): the rows still
\* there, in their order, relabelled from the start
RECURSIVE Tidy(_, _, _)
Tidy(tbl, live, i) ==
    IF i > Len(tbl) THEN <<>>
    ELSE IF i \in live
         THEN <<[tbl[i] EXCEPT !.dir = "->"]>> \o Tidy(tbl, live, i + 1)
         ELSE Tidy(tbl, live, i + 1)

\* lines 145-153: the conflict pass, then the tidying up
Resolved(tbl, c) == Tidy(tbl, ResolveLoop(tbl, 1..Len(tbl), 1, c), 1)

\* lines 109-138 for the node pair node: the two tables afterwards
PairBody(tbl, node, c, causal, final) ==
    LET causal2 == causal \o Emitted(tbl, node, c)
    IN  [causal |-> causal2, final |-> DropDuplicates(final \o causal2)]

\* line 157: list(zip(final_causal_table['from'], final_causal_table['to']))
FinalCausalList(final) == [i \in 1..Len(final) |-> <<final[i].from, final[i].to>>]

\* lines 102-106: the call, with its arguments and two empty tables
CallOrient ==
    /\ pc = "returned"
    /\ nodes' \in SeqsUpTo(NodePairs(vars_lst), MaxPairs)
    /\ collider' \in Range(vars_lst)
    /\ n' = 1
    /\ causal_table' = <<>>
    /\ final_causal_table' = <<>>
    /\ pc' = "pairs"
    /\ UNCHANGED skelVars

\* lines 109-138 for one node pair
PairStep ==
    /\ pc = "pairs"
    /\ n <= Len(nodes)
    /\ LET out == PairBody(skeleton_table, nodes[n], collider,
                            causal_table, final_causal_table)
       IN  /\ causal_table' = out.causal
           /\ final_causal_table' = out.final
    /\ n' = n + 1
    /\ UNCHANGED <<nodes, collider, pc>>
    /\ UNCHANGED skelVars

\* lines 145-160: conflict resolution, tidying up, return
ResolveConflicts ==
    /\ pc = "pairs"
    /\ n > Len(nodes)
    /\ final_causal_table' = Resolved(final_causal_table, collider)
    /\ pc' = "done"
    /\ UNCHANGED <<nodes, collider, n, causal_table>>
    /\ UNCHANGED skelVars

NextOrient ==
    \/ CallOrient
    \/ PairStep
    \/ ResolveConflicts

SpecOrient == InitOrient /\ [][NextOrient]_vars

\* ----------------------------------------- claims: causal_direct_collider
\* reversed(nodes)
Reverse(s) == [i \in 1..Len(s) |-> s[Len(s) + 1 - i]]

\* the loop over the node pairs, lines 109-138: final_causal_table after it
RECURSIVE PairLoop(_, _, _, _, _)
PairLoop(tbl, nds, c, causal, final) ==
    IF nds = <<>> THEN final
    ELSE LET out == PairBody(tbl, Head(nds), c, causal, final)
         IN  PairLoop(tbl, Tail(nds), c, out.causal, out.final)

\* a whole call of causal_direct_collider: the edge list it returns
OrientRun(tbl, nds, c) ==
    FinalCausalList(Resolved(PairLoop(tbl, nds, c, <<>>, <<>>), c))

FinalEdges == Range(FinalCausalList(final_causal_table))

EmittedEdges == {<<causal_table[i].from, causal_table[i].to>> :
                    i \in 1..Len(causal_table)}

NodeVars(nds) == UNION {{nds[i][1], nds[i][2]} : i \in 1..Len(nds)}

\* the edge between the collider and x was emitted in both directions
Conflict(x) ==
    /\ x # collider
    /\ <<x, collider>> \in EmittedEdges
    /\ <<collider, x>> \in EmittedEdges

\* position of the first row of causal_table that is the edge e
FirstRow(e) ==
    CHOOSE i \in 1..Len(causal_table) :
        /\ <<causal_table[i].from, causal_table[i].to>> = e
        /\ \A j \in 1..(i - 1) : <<causal_table[j].from, causal_table[j].to>> # e

\* the three-variable collider data set A -> C <- B: A and B are independent
\* unless C is conditioned on, A - C and B - C are dependent whatever is
\* conditioned on, and all three pairs were tested
ColliderScenario ==
    /\ vars_lst = <<"A", "B", "C">>
    /\ skeleton = <<(<<"A", "B">>), (<<"A", "C">>), (<<"B", "C">>)>>
    /\ oracle[Key("A", "B", <<>>)] > Alpha
    /\ oracle[Key("A", "B", <<"C">>)] <= Alpha
    /\ \A z \in {<<>>, <<"B">>} : oracle[Key("A", "C", z)] <= Alpha
    /\ \A z \in {<<>>, <<"A">>} : oracle[Key("B", "C", z)] <= Alpha

\* the skeleton of the scenario: A - C and B - C stay, A - B is removed
ColliderSkeleton ==
    /\ result = <<(<<"A", "C">>), (<<"B", "C">>)>>
    /\ \A i \in Rows :
         skeleton_table[i].removed =
            IF skeleton_table[i].edges = EdgeLabel("A", "B") THEN "True" ELSE "False"

\* C4, as stated: in the collider scenario the skeleton keeps A - C and B - C
\* and removes A - B, and the call with collider C and node pairs
\* [(A, C), (B, C)] returns the edges A -> C and B -> C.
C4_ColliderScenarioInward ==
    (/\ pc = "done"
     /\ ColliderScenario
     /\ collider = "C"
     /\ nodes = <<(<<"A", "C">>), (<<"B", "C">>)>>)
    => /\ ColliderSkeleton
       /\ FinalEdges = {<<"A", "C">>, <<"B", "C">>}

\* C4, amended: in the collider scenario the skeleton keeps A - C and B - C
\* and removes A - B; the call with collider C and node pairs
\* [(A, C), (B, C)] returns C -> A and C -> B, and it is the call with the
\* node pair [(A, B)] that returns A -> C and B -> C.
C4_ColliderScenarioOutward ==
    ColliderScenario =>
        /\ ColliderSkeleton
        /\ (pc = "done" /\ collider = "C") =>
              /\ nodes = <<(<<"A", "C">>), (<<"B", "C">>)>>
                    => /\ FinalCausalList(final_causal_table)
                          = <<(<<"C", "A">>), (<<"C", "B">>)>>
                       /\ \A i \in 1..Len(final_causal_table) :
                             final_causal_table[i].dir = "->"
              /\ nodes = <<(<<"A", "B">>)>>
                    => FinalCausalList(final_causal_table)
                       = <<(<<"A", "C">>), (<<"B", "C">>)>>

C4_Witness ==
    /\ pc = "done"
    /\ ColliderScenario
    /\ collider = "C"
    /\ nodes = <<(<<"A", "C">>), (<<"B", "C">>)>>
    /\ Len(final_causal_table) = 2

\* C5, as stated: when an edge was emitted in both directions, the direction
\* in the returned list is the one emitted first.
C5_FirstPairWins ==
    pc = "done" =>
        \A x \in Range(vars_lst) :
            Conflict(x) =>
                IF FirstRow(<<x, collider>>) < FirstRow(<<collider, x>>)
                THEN <<x, collider>> \in FinalEdges /\ <<collider, x>> \notin FinalEdges
                ELSE <<collider, x>> \in FinalEdges /\ <<x, collider>> \notin FinalEdges

\* C5, amended: when an edge was emitted in both directions, the returned
\* list holds the inward direction x -> collider and not collider -> x,
\* whichever pair came first; the node pairs in reverse order return the same
\* set of edges.
C5_InwardWinsInEitherOrder ==
    pc = "done" =>
        /\ \A x \in Range(vars_lst) :
              Conflict(x) =>
                  /\ <<x, collider>> \in FinalEdges
                  /\ <<collider, x>> \notin FinalEdges
        /\ Range(OrientRun(skeleton_table, Reverse(nodes), collider)) = FinalEdges

\* two pairs without the collider, the first one emitting collider -> x and
\* the second x -> collider
C5_Witness ==
    /\ pc = "done"
    /\ Len(nodes) = 2
    /\ collider \notin NodeVars(nodes)
    /\ \E x \in Range(vars_lst) :
          /\ Conflict(x)
          /\ FirstRow(<<collider, x>>) < FirstRow(<<x, collider>>)
          /\ <<x, collider>> \in FinalEdges

\* C6: the rows one node pair (a, b) appends to causal_table are a -> collider
\* and b -> collider if some test record with the end points {a, b}, in
\* either order, has p > 0.05 and a conditioning set without the collider,
\* and collider -> a and collider -> b otherwise.
C6_EmittedPerPair ==
    [][(pc = "pairs" /\ n' = n + 1) =>
          LET a == nodes[n][1]
              b == nodes[n][2]
              new == {<<causal_table'[i].from, causal_table'[i].to>> :
                         i \in (Len(causal_table) + 1)..Len(causal_table')}
              indep == \E i \in Rows :
                          /\ {skeleton_table[i].node_1, skeleton_table[i].node_2}
                             = {a, b}
                          /\ skeleton_table[i].pval > Alpha
                          /\ collider \notin Range(skeleton_table[i].s)
          IN  /\ SubSeq(causal_table', 1, Len(causal_table)) = causal_table
              /\ new = IF indep
                       THEN {<<a, collider>>, <<b, collider>>}
                       ELSE {<<collider, a>>, <<collider, b>>}]_vars

\* the chain A -> B -> C with collider B and the pair (A, C): the only test
\* of A - C above 0.05 conditions on B, and the outward edges were emitted
C6_Witness ==
    /\ pc = "pairs"
    /\ n = 2
    /\ collider = "B"
    /\ nodes[1] = <<"A", "C">>
    /\ \E i \in Rows : /\ skeleton_table[i].edges = EdgeLabel("A", "C")
                       /\ skeleton_table[i].s = <<"B">>
                       /\ skeleton_table[i].pval > Alpha
    /\ \E i \in Rows : /\ skeleton_table[i].edges = EdgeLabel("A", "C")
                       /\ skeleton_table[i].s = <<>>
                       /\ skeleton_table[i].pval <= Alpha
    /\ EmittedEdges = {<<"B", "A">>, <<"B", "C">>}

\* C7, as stated: a call whose collider is none of the variables of the node
\* pairs fails at once: it emits no edge and does not return.
C7_UnknownColliderFailsFast ==
    (pc \in {"pairs", "done"} /\ collider \notin NodeVars(nodes)) =>
        /\ pc # "done"
        /\ causal_table = <<>>
        /\ final_causal_table = <<>>

\* C7, amended: a call whose collider is none of the variables of the node
\* pairs is not rejected: it returns, for every variable of the node pairs,
\* exactly one of the edges variable -> collider and collider -> variable,
\* and nothing else.
C7_UnknownColliderOrientsEveryNode ==
    (pc = "done" /\ collider \notin NodeVars(nodes)) =>
        /\ \A v \in NodeVars(nodes) :
              (<<v, collider>> \in FinalEdges) # (<<collider, v>> \in FinalEdges)
        /\ Len(final_causal_table) = Cardinality(NodeVars(nodes))

C7_Witness ==
    /\ pc = "done"
    /\ nodes # <<>>
    /\ collider \notin NodeVars(nodes)
    /\ final_causal_table # <<>>

\* the accumulated table before any drop: the first occurrences of the rows
\* of causal_table, by position
FirstPositions ==
    {i \in 1..Len(causal_table) :
        \A j \in 1..(i - 1) : causal_table[j] # causal_table[i]}

\* the rows at the positions S of causal_table, in their order, as edges
RECURSIVE EdgesAt(_, _)
EdgesAt(S, i) ==
    IF i > Len(causal_table) THEN <<>>
    ELSE IF i \in S
         THEN <<(<<causal_table[i].from, causal_table[i].to>>)>> \o EdgesAt(S, i + 1)
         ELSE EdgesAt(S, i + 1)

\* the edges the inward rule emitted
InwardEmitted ==
    UNION {{<<nodes[i][1], collider>>, <<nodes[i][2], collider>>} :
              i \in {j \in 1..Len(nodes) :
                        ColliderCondition(FilterPair(skeleton_table, nodes[j]),
                                          collider)}}

\* C9, as stated: the returned list is the deduplicated table without the
\* rows collider -> t whose t is the 'from' of another row of that table, and
\* no edge the inward rule emitted is dropped.
C9_DropsTargetsThatAreFromElsewhere ==
    pc = "done" =>
        LET dropped == {i \in FirstPositions :
                           /\ causal_table[i].from = collider
                           /\ \E j \in FirstPositions \ {i} :
                                 causal_table[j].from = causal_table[i].to}
        IN  /\ FinalCausalList(final_causal_table)
               = EdgesAt(FirstPositions \ dropped, 1)
            /\ InwardEmitted \subseteq FinalEdges

\* C9, amended: the returned list is the deduplicated table without the rows
\* collider -> t whose t is the 'from' of any row of that table, the row
\* itself included, so that collider -> collider is always dropped; no edge
\* x -> collider with x other than the collider is dropped.
C9_DropsTargetsThatAreFrom ==
    pc = "done" =>
        LET dropped == {i \in FirstPositions :
                           /\ causal_table[i].from = collider
                           /\ \E j \in FirstPositions :
                                 causal_table[j].from = causal_table[i].to}
        IN  /\ FinalCausalList(final_causal_table)
               = EdgesAt(FirstPositions \ dropped, 1)
            /\ \A e \in InwardEmitted : e[1] # collider => e \in FinalEdges
            /\ <<collider, collider>> \notin FinalEdges

\* the inward rule emitted collider -> collider, which was dropped, and an
\* outward edge was dropped for an inward one
C9_Witness ==
    /\ pc = "done"
    /\ <<collider, collider>> \in InwardEmitted
    /\ \E x \in Range(vars_lst) : Conflict(x)

\* C10: the returned list never holds an edge together with its reverse, so
\* no x -> x either, and every edge has the collider at one of its ends.
C10_NoContradictoryEdges ==
    pc = "done" =>
        \A e \in FinalEdges :
            /\ <<e[2], e[1]>> \notin FinalEdges
            /\ e[1] = collider \/ e[2] = collider

\* a pair holding the collider emitted collider -> collider outward, and
\* another edge was emitted in both directions
C10_Witness ==
    /\ pc = "done"
    /\ <<collider, collider>> \in EmittedEdges
    /\ <<collider, collider>> \notin InwardEmitted
    /\ \E x \in Range(vars_lst) : Conflict(x)
    /\ final_causal_table # <<>>

====
